---------------------------- MODULE Spec2Model ----------------------------
(***************************************************************************)
(* Online speaker diarization pipeline (diart/blocks/diarization.py):      *)
(* PipelineConfig, OnlineSpeakerDiarization.__init__ / reset / __call__.   *)
(*                                                                         *)
(* Units.  Times (step, latency, duration, chunk start) are integers in    *)
(* half seconds.  Activity scores and thresholds are in tenths (0..10).    *)
(* The segmentation model emits one frame per half second, so a chunk of   *)
(* duration d has d frames and frame k of a chunk starting at s covers     *)
(* the tick s + k.                                                         *)
(***************************************************************************)
EXTENDS Integers, Sequences, FiniteSets, TLC

(***************************************************************************)
(* Bounds of the model.                                                    *)
(***************************************************************************)
MaxBatch == 2        \* largest batch handed to one __call__
MaxChunks == 3       \* chunks the caller delivers over the whole run
MaxSpeakers == 2     \* config.max_speakers of the sessions explored

(***************************************************************************)
(* Program constants.                                                      *)
(***************************************************************************)
SampleRate == 3      \* segmentation.get_sample_rate(), samples per second
ModelDuration == 3   \* segmentation.get_duration(), half seconds
TauActive == 6       \* tau_active, tenths
RhoUpdate == 3       \* rho_update, tenths
DeltaNew == 10       \* delta_new, tenths

(***************************************************************************)
(* Inputs.                                                                 *)
(***************************************************************************)
Steps == {1, 2}
\* An optional argument is a record: tag "none" (omitted), "min" / "max"
\* (the literals) or "num" (an explicit number v).
Omitted == [tag |-> "none", v |-> 0]
Lit(name) == [tag |-> name, v |-> 0]
Num(n) == [tag |-> "num", v |-> n]
Durations == {Omitted, Num(2)}
Latencies == {Omitted, Lit("min"), Lit("max")} \cup {Num(n) : n \in 0..4}
SampleCounts == {3, 4, 5}
LocalSpeakers == {1, 2}
GlobalSpeakers == 1..MaxSpeakers

\* Embedding vectors the embedding oracle can return; NaN is the
\* degenerate embedding of a local speaker with negligible activity (a
\* vector with no direction, its cosine to anything is undefined).
NaN == <<0, 0>>
EA == <<1, 0>>
EB == <<0, 1>>
EC == <<3, 1>>
ED == <<0 - 1, 0>>

\* What a chunk sounds like: per local speaker, the activity score the
\* segmentation oracle gives every frame, and the embedding.
ChunkKinds == {"silent", "a", "b"}

\* The stream the identity tracker is explored on: "d" is a speaker
\* opposite to a, "ac" two simultaneous speakers that both resemble a.
TrackerKinds == {"silent", "a", "d", "ac"}

KindScore(kind, l) ==
    CASE kind = "silent" -> 1
      [] kind = "a" -> IF l = 1 THEN 9 ELSE 0
      [] kind = "b" -> IF l = 2 THEN 8 ELSE 2
      [] kind = "d" -> IF l = 1 THEN 9 ELSE 0
      [] kind = "ac" -> IF l = 1 THEN 9 ELSE 8

KindEmb(kind, l) ==
    CASE kind = "silent" -> NaN
      [] kind = "a" -> IF l = 1 THEN EA ELSE NaN
      [] kind = "b" -> IF l = 2 THEN EB ELSE NaN
      [] kind = "d" -> IF l = 1 THEN ED ELSE NaN
      [] kind = "ac" -> IF l = 1 THEN EA ELSE EC

(***************************************************************************)
(* Arithmetic helpers.                                                     *)
(***************************************************************************)
\* np.rint(num / den): round to nearest, ties to even.
RInt(num, den) ==
    LET q == num \div den
        r == num % den
    IN  IF 2 * r < den THEN q
        ELSE IF 2 * r > den THEN q + 1
        ELSE IF q % 2 = 0 THEN q ELSE q + 1

\* ceil(num / den) for den > 0.
Ceil(num, den) == (num + den - 1) \div den

RECURSIVE SumSeq(_)
SumSeq(s) == IF s = <<>> THEN 0 ELSE Head(s) + SumSeq(Tail(s))

(***************************************************************************)
(* PipelineConfig.__init__ : resolution of duration and latency.           *)
(***************************************************************************)
ResolveDuration(duration) ==
    IF duration.tag = "none" THEN ModelDuration ELSE duration.v

\* Mutant: any falsy latency (0 as well as None) takes the default.
ResolveLatency_Falsy(latency, step, duration) ==
    IF latency.tag = "none" \/ latency.tag = "min" \/ latency = Num(0)
    THEN step
    ELSE IF latency.tag = "max" THEN duration
    ELSE latency.v

ResolveLatency(latency, step, duration) ==
    IF latency.tag = "none" \/ latency.tag = "min" THEN step
    ELSE IF latency.tag = "max" THEN duration
    ELSE latency.v

PipelineConfig(a) ==
    LET d == ResolveDuration(a.duration)
    IN  [duration |-> d,
         sample_rate |-> SampleRate,
         step |-> a.step,
         latency |-> ResolveLatency(a.latency, a.step, d),
         tau_active |-> TauActive,
         rho_update |-> RhoUpdate,
         delta_new |-> DeltaNew,
         max_speakers |-> MaxSpeakers]

(***************************************************************************)
(* Oracles (SpeakerSegmentation, OverlapAwareSpeakerEmbedding): what they  *)
(* return for one chunk.  Deterministic in the chunk's content.            *)
(***************************************************************************)
\* (frames, local speakers) activity scores of one chunk.
Segment(chunk, nframes) ==
    [k \in 1..nframes |-> [l \in LocalSpeakers |-> KindScore(chunk.kind, l)]]

\* (local speakers) embedding vectors of one chunk.
Embed(chunk) == [l \in LocalSpeakers |-> KindEmb(chunk.kind, l)]

(***************************************************************************)
(* IdentityTracker (OnlineSpeakerClustering).  A GlobalSpeaker is          *)
(* [sum, count]: its representative embedding is the running mean          *)
(* sum / count of the embeddings that refreshed it; the cosine to the mean *)
(* is the cosine to the sum.                                               *)
(***************************************************************************)
Dot(a, b) == a[1] * b[1] + a[2] * b[2]

\* A monotone key of the cosine of a and b: sign(a.b) * (a.b)^2 over
\* |a|^2 |b|^2, kept as the pair <<numerator, denominator>>.
SignedSq(x) == IF x >= 0 THEN x * x ELSE 0 - x * x

CosKey(a, b) == <<SignedSq(Dot(a, b)), Dot(a, a) * Dot(b, b)>>

\* cosine key p is greater than (at least) cosine key q
KeyGreater(p, q) == p[1] * q[2] > q[1] * p[2]
KeyEqual(p, q) == p[1] * q[2] = q[1] * p[2]

\* cosine(a, b) > t / 10, resp. >= t / 10
CosAbove(a, b, t) == 100 * CosKey(a, b)[1] > SignedSq(t) * CosKey(a, b)[2]
CosAtLeast(a, b, t) == 100 * CosKey(a, b)[1] >= SignedSq(t) * CosKey(a, b)[2]

\* Step 1: a local speaker is active iff its mean activity over the frames
\* exceeds tau_active and its embedding is not degenerate.
MeanActivityAbove(seg, l, tau) ==
    SumSeq([k \in 1..Len(seg) |-> seg[k][l]]) > tau * Len(seg)

\* Every local speaker taken for active.
ActiveSpeakers_Everyone(seg, emb, tau) == LocalSpeakers

ActiveSpeakers(seg, emb, tau) ==
    {l \in LocalSpeakers : MeanActivityAbove(seg, l, tau) /\ emb[l] # NaN}

\* The threshold applied to the similarity instead of the distance.
Matchable_Similarity(e, center, delta) == ~CosAtLeast(e, center.sum, delta)

\* Steps 2-3: a pair is matchable iff its cosine distance is below
\* delta_new, i.e. its cosine is above 1 - delta_new.
Matchable(e, center, delta) == CosAbove(e, center.sum, 10 - delta)

\* p is preferred to q: higher similarity first, then the lower indices.
Preferred(p, q, emb, centers) ==
    LET kp == CosKey(emb[p[1]], centers[p[2]].sum)
        kq == CosKey(emb[q[1]], centers[q[2]].sum)
    IN  \/ KeyGreater(kp, kq)
        \/ /\ KeyEqual(kp, kq)
           /\ (p[1] < q[1] \/ (p[1] = q[1] /\ p[2] <= q[2]))

\* Every local speaker takes the identity nearest to it, whoever else
\* took it.
GreedyAssign_Nearest(locals, globals, emb, centers, delta, map) ==
    [l \in LocalSpeakers |->
        LET near == {g \in globals : Matchable(emb[l], centers[g], delta)}
        IN  IF l \in locals /\ near # {}
            THEN CHOOSE g \in near :
                     \A h \in near :
                         ~KeyGreater(CosKey(emb[l], centers[h].sum),
                                     CosKey(emb[l], centers[g].sum))
            ELSE map[l]]

\* Greedy one-to-one assignment, most similar pair first.  map is a
\* function local speaker -> global identity, 0 for "unassigned".
RECURSIVE GreedyAssign(_, _, _, _, _, _)
GreedyAssign(locals, globals, emb, centers, delta, map) ==
    LET cands == {p \in locals \X globals :
                     Matchable(emb[p[1]], centers[p[2]], delta)}
    IN  IF cands = {} THEN map
        ELSE LET best == CHOOSE p \in cands :
                             \A q \in cands : Preferred(p, q, emb, centers)
             IN  GreedyAssign(locals \ {best[1]}, globals \ {best[2]}, emb,
                              centers, delta,
                              [map EXCEPT ![best[1]] = best[2]])

\* Step 4: unassigned active local speakers found new identities, in
\* local-speaker order, while the cap allows it.  st is [centers, map].
RECURSIVE SpawnNew(_, _, _, _)
SpawnNew(locals, emb, cap, st) ==
    IF locals = {} THEN st
    ELSE LET l == CHOOSE x \in locals : \A y \in locals : x <= y
             rest == locals \ {l}
         IN  IF Len(st.centers) < cap
             THEN SpawnNew(rest, emb, cap,
                      [centers |-> Append(st.centers,
                                          [sum |-> emb[l], count |-> 1]),
                       map |-> [st.map EXCEPT ![l] = Len(st.centers) + 1]])
             ELSE SpawnNew(rest, emb, cap, st)

\* Step 5: a matched identity whose similarity is at least rho_update is
\* refreshed by the running mean and its counter incremented.
Refresh(centers, matched, emb, rho) ==
    [g \in 1..Len(centers) |->
        IF \E l \in LocalSpeakers :
               /\ matched[l] = g
               /\ CosAtLeast(emb[l], centers[g].sum, rho)
        THEN LET l == CHOOSE x \in LocalSpeakers : matched[x] = g
             IN  [sum |-> <<centers[g].sum[1] + emb[l][1],
                            centers[g].sum[2] + emb[l][2]>>,
                  count |-> centers[g].count + 1]
        ELSE centers[g]]

\* Step 6: the activity matrix with columns indexed by global identity.
Permute(seg, map) ==
    [k \in 1..Len(seg) |->
        [g \in GlobalSpeakers |->
            IF \E l \in LocalSpeakers : map[l] = g
            THEN seg[k][CHOOSE l \in LocalSpeakers : map[l] = g]
            ELSE 0]]

NoMap == [l \in LocalSpeakers |-> 0]

\* The tracker built without the configured cap (its own default, 20).
NewClustering_DefaultCap(cfg) ==
    [tau_active |-> cfg.tau_active,
     rho_update |-> cfg.rho_update,
     delta_new |-> cfg.delta_new,
     max_speakers |-> 20,
     centers |-> <<>>]

\* OnlineSpeakerClustering(...) : a tracker with no identity.
NewClustering(cfg) ==
    [tau_active |-> cfg.tau_active,
     rho_update |-> cfg.rho_update,
     delta_new |-> cfg.delta_new,
     max_speakers |-> cfg.max_speakers,
     centers |-> <<>>]

\* clustering(seg, emb): the new tracker state, the local -> global map
\* and the permuted segmentation.
ClusteringCall(clustering, seg, emb) ==
    LET active == ActiveSpeakers(seg, emb, clustering.tau_active)
        known == 1..Len(clustering.centers)
        matched == GreedyAssign(active, known, emb, clustering.centers,
                                clustering.delta_new, NoMap)
        missed == {l \in active : matched[l] = 0}
        refreshed == Refresh(clustering.centers, matched, emb,
                             clustering.rho_update)
        spawned == SpawnNew(missed, emb, clustering.max_speakers,
                            [centers |-> refreshed, map |-> matched])
    IN  [clustering |-> [clustering EXCEPT !.centers = spawned.centers],
         map |-> spawned.map,
         permuted |-> Permute(seg, spawned.map)]

(***************************************************************************)
(* ConsensusBuffer (DelayedAggregation) and Thresholder (Binarize).        *)
(***************************************************************************)
\* np.hamming(n), in hundredths.
Hamming(n) ==
    CASE n = 1 -> <<100>>
      [] n = 2 -> <<8, 8>>
      [] n = 3 -> <<8, 100, 8>>
      [] n = 4 -> <<8, 77, 77, 8>>

\* Number of chunks overlapping a span of length latency at hop step.
NumOverlappingWindows(step, latency) == Ceil(latency, step)

DelayedAggregation(step, latency, strategy, cropping_mode) ==
    [step |-> step,
     latency |-> latency,
     strategy |-> strategy,
     cropping_mode |-> cropping_mode,
     num_overlapping_windows |-> NumOverlappingWindows(step, latency)]

\* The ticks of the output region of a buffer: step ticks starting at the
\* end of the newest entry minus the latency.
RegionStart(agg, buffers) ==
    LET last == buffers[Len(buffers)]
    IN  last.start + last.duration - agg.latency

Region(agg, buffers) ==
    RegionStart(agg, buffers)..(RegionStart(agg, buffers) + agg.step - 1)

Covers(entry, t) == entry.start <= t /\ t < entry.start + entry.duration

\* "hamming" / "loose": per tick of the region and global speaker, the
\* Hamming-weighted average of the buffered predictions covering the
\* tick, kept as <<numerator, denominator>>.
HammingAggregate(agg, buffers) ==
    [t \in Region(agg, buffers) |->
        [g \in GlobalSpeakers |->
            LET ws == [j \in 1..Len(buffers) |->
                          IF Covers(buffers[j], t)
                          THEN Hamming(buffers[j].duration)[t - buffers[j].start + 1]
                          ELSE 0]
                vs == [j \in 1..Len(buffers) |->
                          IF Covers(buffers[j], t)
                          THEN ws[j] * buffers[j].data[t - buffers[j].start + 1][g]
                          ELSE 0]
            IN  <<SumSeq(vs), SumSeq(ws)>>]]

\* "first" / "center": the samples of the oldest buffered chunk that fall
\* in the region, named by the chunk and the span taken from it.
FirstAggregate(agg, buffers) ==
    LET first == buffers[1]
        lo == RegionStart(agg, buffers)
        hi == lo + agg.step
        from == IF first.start > lo THEN first.start ELSE lo
        to == IF first.start + first.duration < hi
              THEN first.start + first.duration ELSE hi
    IN  [chunk |-> first.id, from |-> from, to |-> to]

\* Binarize(tau_active): the labeled intervals <<start, end, identity>>, a
\* frame being active iff its score exceeds tau_active and contiguous
\* active frames of an identity merging into one interval.
Binarize(scores, tau) ==
    LET ticks == DOMAIN scores
        On(t, g) == /\ t \in ticks
                    /\ scores[t][g][1] > tau * scores[t][g][2]
    IN  {iv \in ticks \X {t + 1 : t \in ticks} \X GlobalSpeakers :
            /\ iv[1] < iv[2]
            /\ \A t \in iv[1]..(iv[2] - 1) : On(t, iv[3])
            /\ ~On(iv[1] - 1, iv[3])
            /\ ~On(iv[2], iv[3])}

(***************************************************************************)
(* The session object (OnlineSpeakerDiarization) as a value: the fields    *)
(* that reset() and __call__ mutate.                                       *)
(***************************************************************************)
\* Mutant: the upper end of the range is not checked.
LatencyInRange_NoUpper(cfg) == cfg.step <= cfg.latency

\* __init__, line 142: the latency assertion.
LatencyInRange(cfg) == cfg.step <= cfg.latency /\ cfg.latency <= cfg.duration

\* Mutant: reset() empties the prediction buffer only.
ResetOp_KeepChunks(sess, cfg) ==
    [clustering |-> NewClustering(cfg),
     chunk_buffer |-> sess.chunk_buffer,
     pred_buffer |-> <<>>]

\* Mutant: reset() empties the chunk buffer only.
ResetOp_KeepPred(sess, cfg) ==
    [clustering |-> NewClustering(cfg),
     chunk_buffer |-> <<>>,
     pred_buffer |-> sess.pred_buffer]

\* reset(): a new tracker and two new empty buffers.
ResetOp(sess, cfg) ==
    [clustering |-> NewClustering(cfg),
     chunk_buffer |-> <<>>,
     pred_buffer |-> <<>>]

\* __init__, lines 162-165: clustering = None, empty buffers, then reset().
NewSession(cfg) ==
    ResetOp([clustering |-> [centers |-> <<>>],
             chunk_buffer |-> <<>>,
             pred_buffer |-> <<>>], cfg)

\* __call__, line 192: int(np.rint(duration * sample_rate)), the duration
\* being in half seconds and the rate in samples per second.
ExpectedNumSamples(cfg) == RInt(cfg.duration * cfg.sample_rate, 2)

\* __call__, lines 185-194: the batch passes both assertions (torch.stack
\* in between needs chunks of one size).
SameSize(batch) == \A j \in 1..Len(batch) : batch[j].samples = batch[1].samples

\* Mutant: the sample count is not checked.
BatchAccepted_AnySize(batch, cfg) == Len(batch) >= 1 /\ SameSize(batch)

BatchAccepted(batch, cfg) ==
    /\ Len(batch) >= 1
    /\ SameSize(batch)
    /\ batch[1].samples = ExpectedNumSamples(cfg)

\* The tracker built anew for the chunk instead of the session's.
TrackOp_Recreate(sess, wav, seg, emb) ==
    LET r == ClusteringCall([sess.clustering EXCEPT !.centers = <<>>],
                            seg, emb)
    IN  [sess |-> [sess EXCEPT !.clustering = r.clustering],
         permuted_seg |-> [id |-> wav.id,
                           start |-> wav.start,
                           duration |-> wav.duration,
                           data |-> r.permuted],
         map |-> r.map]

\* __call__, lines 204-213: timestamps on the segmentation, then the
\* tracker update.  Yields the session, the permuted segmentation and the
\* speaker map.
TrackOp(sess, wav, seg, emb) ==
    LET r == ClusteringCall(sess.clustering, seg, emb)
    IN  [sess |-> [sess EXCEPT !.clustering = r.clustering],
         permuted_seg |-> [id |-> wav.id,
                           start |-> wav.start,
                           duration |-> wav.duration,
                           data |-> r.permuted],
         map |-> r.map]

\* __call__, lines 216-217.
AppendOp(sess, wav, permuted_seg) ==
    [sess EXCEPT !.chunk_buffer = Append(@, wav),
                 !.pred_buffer = Append(@, permuted_seg)]

\* __call__, lines 220-222: the pair appended to outputs.
AggregateOp(sess, audio_aggregation, pred_aggregation, tau) ==
    <<Binarize(HammingAggregate(pred_aggregation, sess.pred_buffer), tau),
      FirstAggregate(audio_aggregation, sess.chunk_buffer)>>

\* Mutant: eviction drops the oldest chunk but not its prediction.
EvictOp_ChunkOnly(sess, num_overlapping_windows) ==
    IF Len(sess.chunk_buffer) = num_overlapping_windows
    THEN [sess EXCEPT !.chunk_buffer = SubSeq(@, 2, Len(@))]
    ELSE sess

\* __call__, lines 225-227.
EvictOp(sess, num_overlapping_windows) ==
    IF Len(sess.chunk_buffer) = num_overlapping_windows
    THEN [sess EXCEPT !.chunk_buffer = SubSeq(@, 2, Len(@)),
                      !.pred_buffer = SubSeq(@, 2, Len(@))]
    ELSE sess

\* Mutant: the newest pair is put first.
CollectOp_Prepend(outputs, pair) == <<pair>> \o outputs

\* __call__, line 222 and 229: outputs collects the pairs in loop order.
CollectOp(outputs, pair) == Append(outputs, pair)

(***************************************************************************)
(* State.                                                                  *)
(***************************************************************************)
VARIABLES
    pc,                \* where the program is (see the actions)
    args,              \* the arguments given to PipelineConfig(...)
    config,            \* self._config
    created,           \* the state attributes __init__ has assigned so far
    audio_aggregation, \* self.audio_aggregation
    pred_aggregation,  \* self.pred_aggregation
    clustering,        \* self.clustering
    chunk_buffer,      \* self.chunk_buffer
    pred_buffer,       \* self.pred_buffer
    waveforms,         \* __call__: the batch
    segmentations,     \* __call__: result of the segmentation oracle
    embeddings,        \* __call__: result of the embedding oracle
    outputs,           \* __call__: the list being returned
    i,                 \* __call__: index of the chunk the loop is at
    permuted_seg,      \* __call__: the loop's permuted segmentation
    speaker_map,       \* local -> global map of the last tracker update
    result,            \* how the last call to the session ended
    nchunks,           \* chunks the caller has handed over so far
    entry,             \* history: the session state when the call began
    oracle_calls,      \* history: oracle invocations made by the call
    produced,          \* history: the pair made at the step of each
                       \* chunk of the batch
    stream,            \* the kinds of chunk the audio source delivers
    single,            \* a reference session, given every chunk in a
                       \* call of its own and reset when the session is;
                       \* value is what those calls returned since the
                       \* session's current call began
    hist,              \* history: seen, the kinds of chunk the tracker
                       \* was given since the last reset; log, the ids
                       \* of the chunks appended to the buffers since
                       \* the last reset; steps, the steps the current
                       \* call has taken, each with its chunk's id
    fresh              \* a reference session, constructed anew at every
                       \* reset and fed the same chunks since; discarded
                       \* tells whether that reset had state to discard

vars == <<pc, args, config, created, audio_aggregation, pred_aggregation,
          clustering, chunk_buffer, pred_buffer, waveforms, segmentations,
          embeddings, outputs, i, permuted_seg, speaker_map, result,
          nchunks, entry, oracle_calls, produced, stream, hist,
          single, fresh>>

config_vars == <<args, config, created, audio_aggregation, pred_aggregation>>
locals == <<waveforms, segmentations, embeddings, outputs, i, permuted_seg>>

Self == [clustering |-> clustering,
         chunk_buffer |-> chunk_buffer,
         pred_buffer |-> pred_buffer]

SetSelf(sess) ==
    /\ clustering' = sess.clustering
    /\ chunk_buffer' = sess.chunk_buffer
    /\ pred_buffer' = sess.pred_buffer

NoArgs == [step |-> 0, duration |-> Omitted, latency |-> Omitted]
NoConfig == PipelineConfig(NoArgs)
NoAggregation == DelayedAggregation(1, 0, "", "")
NoSeg == [id |-> 0, start |-> 0, duration |-> 0, data |-> <<>>]
NoSession == [clustering |-> [centers |-> <<>>],
              chunk_buffer |-> <<>>,
              pred_buffer |-> <<>>]
NoResult == [tag |-> "none", value |-> <<>>, of |-> <<>>]
NoOutput == <<{}, [chunk |-> 0, from |-> 0, to |-> 0]>>
NoCalls == [segmentation |-> 0, embedding |-> 0]
NoSingle == [sess |-> NoSession, permuted_seg |-> NoSeg, value |-> <<>>]
NoHist == [seen |-> {}, log |-> <<>>, steps |-> <<>>]
NoFresh == [sess |-> NoSession, permuted_seg |-> NoSeg, outputs |-> <<>>,
            value |-> <<>>, discarded |-> FALSE]
StateAttributes == {"clustering", "chunk_buffer", "pred_buffer"}

\* The positions inside __call__ after its assertions.
InCall == {"segmentation", "embedding", "track", "append", "aggregate",
           "evict", "return"}

\* Nothing constructed yet.
Blank ==
    /\ pc = "start"
    /\ config = NoConfig
    /\ created = {}
    /\ audio_aggregation = NoAggregation
    /\ pred_aggregation = NoAggregation
    /\ clustering = NoSession.clustering
    /\ chunk_buffer = <<>>
    /\ pred_buffer = <<>>
    /\ waveforms = <<>>
    /\ segmentations = <<>>
    /\ embeddings = <<>>
    /\ outputs = <<>>
    /\ i = 0
    /\ permuted_seg = NoSeg
    /\ speaker_map = NoMap
    /\ result = NoResult
    /\ nchunks = 0
    /\ entry = NoSession
    /\ oracle_calls = NoCalls
    /\ produced = <<>>
    /\ hist = NoHist
    /\ single = NoSingle
    /\ fresh = NoFresh

Init ==
    /\ args \in [step : Steps, duration : Durations, latency : Latencies]
    /\ stream = ChunkKinds
    /\ Blank

\* The tracker's stream: step 0.5 s, duration 1 s, latency 0.5 s, 1 s or
\* (refused) 1.5 s, over the richer kinds of chunk.
InitTracker ==
    /\ args \in [step : {1}, duration : {Num(2)},
                 latency : {Num(1), Num(2), Num(3)}]
    /\ stream = TrackerKinds
    /\ Blank

(***************************************************************************)
(* Construction.                                                           *)
(***************************************************************************)
\* PipelineConfig(**args)
MakeConfig ==
    /\ pc = "start"
    /\ config' = PipelineConfig(args)
    /\ pc' = "configured"
    /\ UNCHANGED <<stream, single, hist, args, created, audio_aggregation, pred_aggregation,
                   clustering, chunk_buffer, pred_buffer, locals,
                   speaker_map, result, nchunks, entry, oracle_calls,
                   produced, fresh>>

\* A reference session: what OnlineSpeakerDiarization(config) starts as.
FreshSession(cfg) == [NoFresh EXCEPT !.sess = NewSession(cfg)]

\* The aggregations built with step and latency in each other's place.
ConstructOk_Swapped ==
    /\ pc = "configured"
    /\ LatencyInRange(config)
    /\ pred_aggregation' =
           DelayedAggregation(config.latency, config.step, "hamming", "loose")
    /\ audio_aggregation' =
           DelayedAggregation(config.latency, config.step, "first", "center")
    /\ created' = StateAttributes
    /\ SetSelf(NewSession(config))
    /\ fresh' = FreshSession(config)
    /\ args' = NoArgs
    /\ pc' = "idle"
    /\ single' = [NoSingle EXCEPT !.sess = NewSession(config)]
    /\ UNCHANGED <<stream, hist, config, locals, speaker_map, result, nchunks,
                   entry, oracle_calls, produced>>

\* OnlineSpeakerDiarization(config), the assertion of line 142 passing.
ConstructOk ==
    /\ pc = "configured"
    /\ LatencyInRange(config)
    /\ pred_aggregation' =
           DelayedAggregation(config.step, config.latency, "hamming", "loose")
    /\ audio_aggregation' =
           DelayedAggregation(config.step, config.latency, "first", "center")
    /\ created' = StateAttributes
    /\ SetSelf(NewSession(config))
    /\ fresh' = FreshSession(config)
    /\ args' = NoArgs
    /\ pc' = "idle"
    /\ single' = [NoSingle EXCEPT !.sess = NewSession(config)]
    /\ UNCHANGED <<stream, hist, config, locals, speaker_map, result, nchunks, entry,
                   oracle_calls, produced>>

\* OnlineSpeakerDiarization(config), the assertion of line 142 failing:
\* nothing after it runs.
ConstructFail ==
    /\ pc = "configured"
    /\ ~LatencyInRange(config)
    /\ pc' = "failed"
    /\ args' = NoArgs
    /\ UNCHANGED <<stream, single, hist, config, created, audio_aggregation, pred_aggregation,
                   clustering, chunk_buffer, pred_buffer, locals,
                   speaker_map, result, nchunks, entry, oracle_calls,
                   produced, fresh>>

(***************************************************************************)
(* reset()                                                                 *)
(***************************************************************************)
Reset ==
    /\ pc = "idle"
    /\ SetSelf(ResetOp(Self, config))
    /\ result' = [NoResult EXCEPT !.tag = "reset"]
    /\ fresh' = [FreshSession(config) EXCEPT
                    !.discarded = (Self # NewSession(config))]
    /\ hist' = NoHist
    /\ single' = [NoSingle EXCEPT !.sess = ResetOp(single.sess, config)]
    /\ UNCHANGED <<pc, stream, config_vars, locals, speaker_map, nchunks, entry,
                   oracle_calls, produced>>

(***************************************************************************)
(* __call__(waveforms)                                                     *)
(***************************************************************************)
\* The next n chunks of the caller's stream, hop step apart.
NewBatch(n, kinds, samples) ==
    [j \in 1..n |-> [id |-> nchunks + j,
                     start |-> (nchunks + j - 1) * config.step,
                     duration |-> config.duration,
                     samples |-> samples[j],
                     kind |-> kinds[j]]]

\* What the history keeps of a batch: the chunks' ids.
Ids(batch) == [j \in 1..Len(batch) |-> batch[j].id]

ClearLocals ==
    /\ waveforms' = <<>>
    /\ segmentations' = <<>>
    /\ embeddings' = <<>>
    /\ outputs' = <<>>
    /\ i' = 0
    /\ permuted_seg' = NoSeg

\* The call raises: the exception leaves __call__, its locals are gone.
Raise(tag) ==
    /\ pc' = "idle"
    /\ result' = [NoResult EXCEPT !.tag = tag]
    /\ ClearLocals
    /\ produced' = <<>>
    /\ hist' = [hist EXCEPT !.steps = <<>>]
    /\ single' = [single EXCEPT !.value = <<>>, !.permuted_seg = NoSeg]
    /\ fresh' = [fresh EXCEPT !.outputs = <<>>, !.value = <<>>,
                              !.permuted_seg = NoSeg]

\* Lines 185-194, an assertion (or torch.stack) failing.  The chunks'
\* content is not looked at on this path.
CallRejected ==
    /\ pc = "idle"
    /\ \E n \in 0..MaxBatch : \E samples \in [1..n -> SampleCounts] :
          LET batch == NewBatch(n, [j \in 1..n |-> "silent"], samples)
          IN  /\ ~BatchAccepted(batch, config)
              /\ Raise(IF n >= 1 /\ ~SameSize(batch)
                       THEN "RuntimeError" ELSE "AssertionError")
    /\ entry' = Self
    /\ oracle_calls' = NoCalls
    /\ UNCHANGED <<stream, config_vars, clustering, chunk_buffer, pred_buffer,
                   speaker_map, nchunks>>

\* Lines 185-194, both assertions passing.
CallAccepted ==
    /\ pc = "idle"
    /\ \E n \in 0..MaxBatch : \E samples \in [1..n -> SampleCounts] :
          /\ nchunks + n <= MaxChunks
          /\ BatchAccepted(NewBatch(n, [j \in 1..n |-> "silent"], samples),
                           config)
          /\ \E kinds \in [1..n -> stream] :
                /\ waveforms' = NewBatch(n, kinds, samples)
                /\ nchunks' = nchunks + n
                /\ produced' = [j \in 1..n |-> NoOutput]
    /\ pc' = "segmentation"
    /\ result' = NoResult
    /\ entry' = Self
    /\ oracle_calls' = NoCalls
    /\ fresh' = [fresh EXCEPT !.value = <<>>]
    /\ single' = [single EXCEPT !.value = <<>>]
    /\ UNCHANGED <<stream, hist, config_vars, clustering, chunk_buffer, pred_buffer,
                   segmentations, embeddings, outputs, i, permuted_seg,
                   speaker_map>>

\* Line 197, the segmentation oracle answering.
SegmentationOk ==
    /\ pc = "segmentation"
    /\ segmentations' =
           [j \in 1..Len(waveforms) |-> Segment(waveforms[j], config.duration)]
    /\ oracle_calls' = [oracle_calls EXCEPT !.segmentation = @ + 1]
    /\ pc' = "embedding"
    /\ UNCHANGED <<stream, single, hist, config_vars, clustering, chunk_buffer, pred_buffer,
                   waveforms, embeddings, outputs, i, permuted_seg,
                   speaker_map, result, nchunks, entry, produced, fresh>>

\* Line 197, the segmentation oracle failing.
SegmentationFail ==
    /\ pc = "segmentation"
    /\ oracle_calls' = [oracle_calls EXCEPT !.segmentation = @ + 1]
    /\ Raise("OracleError")
    /\ UNCHANGED <<stream, config_vars, clustering, chunk_buffer, pred_buffer,
                   speaker_map, nchunks, entry>>

\* Lines 198-202, the embedding oracle answering; the loop begins.
EmbeddingOk ==
    /\ pc = "embedding"
    /\ embeddings' = [j \in 1..Len(waveforms) |-> Embed(waveforms[j])]
    /\ oracle_calls' = [oracle_calls EXCEPT !.embedding = @ + 1]
    /\ outputs' = <<>>
    /\ i' = 1
    /\ pc' = "track"
    /\ fresh' = [fresh EXCEPT !.outputs = <<>>]
    /\ UNCHANGED <<stream, single, hist, config_vars, clustering, chunk_buffer, pred_buffer,
                   waveforms, segmentations, permuted_seg, speaker_map,
                   result, nchunks, entry, produced>>

\* Mutant: the embedding oracle is invoked chunk by chunk inside the
\* loop, so it can fail after earlier chunks were handled.
EmbeddingFail_InLoop ==
    /\ pc \in {"embedding", "track"}
    /\ oracle_calls' = [oracle_calls EXCEPT !.embedding = @ + 1]
    /\ Raise("OracleError")
    /\ UNCHANGED <<stream, config_vars, clustering, chunk_buffer, pred_buffer,
                   speaker_map, nchunks, entry>>

\* Line 198, the embedding oracle failing.
EmbeddingFail ==
    /\ pc = "embedding"
    /\ oracle_calls' = [oracle_calls EXCEPT !.embedding = @ + 1]
    /\ Raise("OracleError")
    /\ UNCHANGED <<stream, config_vars, clustering, chunk_buffer, pred_buffer,
                   speaker_map, nchunks, entry>>

\* Every chunk tracked with the first chunk's segmentation and embeddings.
Track_FirstOfBatch ==
    /\ pc = "track"
    /\ LET r == TrackOp(Self, waveforms[i], segmentations[1], embeddings[1])
           f == TrackOp(fresh.sess, waveforms[i], segmentations[1],
                        embeddings[1])
       IN  /\ SetSelf(r.sess)
           /\ permuted_seg' = r.permuted_seg
           /\ speaker_map' = r.map
           /\ fresh' = [fresh EXCEPT !.sess = f.sess,
                                     !.permuted_seg = f.permuted_seg]
    /\ pc' = "append"
    /\ hist' = [hist EXCEPT !.seen = @ \cup {waveforms[i].kind},
                            !.steps = Append(@, <<"track", waveforms[i].id>>)]
    /\ LET one == TrackOp(single.sess, waveforms[i],
                          Segment(waveforms[i], config.duration),
                          Embed(waveforms[i]))
       IN  single' = [single EXCEPT !.sess = one.sess,
                                    !.permuted_seg = one.permuted_seg]
    /\ UNCHANGED <<stream, config_vars, waveforms, segmentations, embeddings,
                   outputs, i, result, nchunks, entry, oracle_calls,
                   produced>>

\* Lines 203-213 for chunk i: the tracker update.
Track ==
    /\ pc = "track"
    /\ LET r == TrackOp(Self, waveforms[i], segmentations[i], embeddings[i])
           f == TrackOp(fresh.sess, waveforms[i], segmentations[i],
                        embeddings[i])
       IN  /\ SetSelf(r.sess)
           /\ permuted_seg' = r.permuted_seg
           /\ speaker_map' = r.map
           /\ fresh' = [fresh EXCEPT !.sess = f.sess,
                                     !.permuted_seg = f.permuted_seg]
    /\ pc' = "append"
    /\ hist' = [hist EXCEPT !.seen = @ \cup {waveforms[i].kind},
                            !.steps = Append(@, <<"track", waveforms[i].id>>)]
    /\ LET one == TrackOp(single.sess, waveforms[i],
                          Segment(waveforms[i], config.duration),
                          Embed(waveforms[i]))
       IN  single' = [single EXCEPT !.sess = one.sess,
                                    !.permuted_seg = one.permuted_seg]
    /\ UNCHANGED <<stream, config_vars, waveforms, segmentations, embeddings,
                   outputs, i, result, nchunks, entry, oracle_calls,
                   produced>>

\* Lines 203-213 for chunk i, an exception leaving the tracker update.
TrackRaise ==
    /\ pc = "track"
    /\ Raise("Raised")
    /\ UNCHANGED <<stream, config_vars, clustering, chunk_buffer, pred_buffer,
                   speaker_map, nchunks, entry, oracle_calls>>

\* Place made for new chunks right after the append, before the
\* aggregations.
AppendStep_EvictFirst ==
    /\ pc = "append"
    /\ SetSelf(EvictOp(AppendOp(Self, waveforms[i], permuted_seg),
                       pred_aggregation.num_overlapping_windows))
    /\ fresh' = [fresh EXCEPT
                    !.sess = AppendOp(@, waveforms[i], fresh.permuted_seg)]
    /\ pc' = "aggregate"
    /\ hist' = [hist EXCEPT
                   !.log = Append(@, waveforms[i].id),
                   !.steps = @ \o << <<"append", waveforms[i].id>>,
                                     <<"evict", waveforms[i].id>> >>]
    /\ single' = [single EXCEPT
                     !.sess = AppendOp(@, waveforms[i], single.permuted_seg)]
    /\ UNCHANGED <<stream, config_vars, locals, speaker_map, result, nchunks,
                   entry, oracle_calls, produced>>

\* Lines 216-217 for chunk i.
AppendStep ==
    /\ pc = "append"
    /\ SetSelf(AppendOp(Self, waveforms[i], permuted_seg))
    /\ fresh' = [fresh EXCEPT
                    !.sess = AppendOp(@, waveforms[i], fresh.permuted_seg)]
    /\ pc' = "aggregate"
    /\ hist' = [hist EXCEPT !.log = Append(@, waveforms[i].id),
                            !.steps = Append(@, <<"append", waveforms[i].id>>)]
    /\ single' = [single EXCEPT
                     !.sess = AppendOp(@, waveforms[i], single.permuted_seg)]
    /\ UNCHANGED <<stream, config_vars, locals, speaker_map, result, nchunks,
                   entry, oracle_calls, produced>>

\* Lines 220-222 for chunk i: both aggregations and the thresholding.
AggregateStep ==
    /\ pc = "aggregate"
    /\ LET pair == AggregateOp(Self, audio_aggregation, pred_aggregation,
                               config.tau_active)
           fpair == AggregateOp(fresh.sess, audio_aggregation,
                                pred_aggregation, config.tau_active)
       IN  /\ outputs' = CollectOp(outputs, pair)
           /\ produced' = [produced EXCEPT ![i] = pair]
           /\ fresh' = [fresh EXCEPT !.outputs = CollectOp(@, fpair)]
    /\ pc' = "evict"
    /\ hist' = [hist EXCEPT
                   !.steps = Append(@, <<"aggregate", waveforms[i].id>>)]
    /\ single' = [single EXCEPT
                     !.value = CollectOp(@, AggregateOp(single.sess,
                                   audio_aggregation, pred_aggregation,
                                   config.tau_active))]
    /\ UNCHANGED <<stream, config_vars, clustering, chunk_buffer, pred_buffer,
                   waveforms, segmentations, embeddings, i, permuted_seg,
                   speaker_map, result, nchunks, entry, oracle_calls>>

\* Lines 220-222 for chunk i, an exception leaving an aggregation or the
\* thresholding.
AggregateRaise ==
    /\ pc = "aggregate"
    /\ Raise("Raised")
    /\ UNCHANGED <<stream, config_vars, clustering, chunk_buffer, pred_buffer,
                   speaker_map, nchunks, entry, oracle_calls>>

\* Lines 225-227 for chunk i, then the loop goes on or ends.
EvictStep ==
    /\ pc = "evict"
    /\ SetSelf(EvictOp(Self, pred_aggregation.num_overlapping_windows))
    /\ fresh' = [fresh EXCEPT
                    !.sess = EvictOp(@, pred_aggregation.num_overlapping_windows)]
    /\ IF i < Len(waveforms)
       THEN i' = i + 1 /\ pc' = "track"
       ELSE i' = i /\ pc' = "return"
    /\ hist' = [hist EXCEPT !.steps = Append(@, <<"evict", waveforms[i].id>>)]
    /\ single' = [single EXCEPT
                     !.sess = EvictOp(@, pred_aggregation.num_overlapping_windows),
                     !.permuted_seg = NoSeg]
    /\ UNCHANGED <<stream, config_vars, waveforms, segmentations, embeddings,
                   outputs, permuted_seg, speaker_map, result, nchunks,
                   entry, oracle_calls, produced>>

\* Line 229.
Return ==
    /\ pc = "return"
    /\ result' = [tag |-> "ok", value |-> outputs, of |-> Ids(waveforms)]
    /\ fresh' = [fresh EXCEPT !.value = fresh.outputs,
                              !.outputs = <<>>,
                              !.permuted_seg = NoSeg]
    /\ ClearLocals
    /\ pc' = "idle"
    /\ hist' = [hist EXCEPT !.steps = <<>>]
    /\ UNCHANGED <<stream, single, config_vars, clustering, chunk_buffer, pred_buffer,
                   speaker_map, nchunks, entry, oracle_calls, produced>>

Next ==
    \/ MakeConfig
    \/ ConstructOk
    \/ ConstructFail
    \/ Reset
    \/ CallRejected
    \/ CallAccepted
    \/ SegmentationOk
    \/ SegmentationFail
    \/ EmbeddingOk
    \/ EmbeddingFail
    \/ Track
    \/ TrackRaise
    \/ AppendStep
    \/ AggregateStep
    \/ AggregateRaise
    \/ EvictStep
    \/ Return

Spec == Init /\ [][Next]_vars

TrackerSpec == InitTracker /\ [][Next]_vars

(***************************************************************************)
(* Properties.                                                             *)
(***************************************************************************)
\* A session object exists: __init__ has returned.
Constructed == pc \notin {"start", "configured", "failed"}

\* C1: with a valid configuration, at every point of execution (right
\* after an append and before the eviction check included) the chunk
\* buffer and the prediction buffer each hold at most
\* num_overlapping_windows entries.
C1_BufferBound ==
    Constructed =>
        /\ Len(chunk_buffer) <= pred_aggregation.num_overlapping_windows
        /\ Len(pred_buffer) <= pred_aggregation.num_overlapping_windows

\* C2: a call that succeeds on a batch of n >= 1 chunks returns exactly n
\* pairs, the i-th being the pair made when the i-th chunk was processed.
C2_OnePairPerChunk ==
    (pc = "idle" /\ result.tag = "ok") =>
        /\ Len(result.of) >= 1
        /\ Len(result.value) = Len(result.of)
        /\ \A j \in 1..Len(result.of) : result.value[j] = produced[j]

\* A two-chunk batch returned, its two pairs different.
C2_Witness ==
    /\ pc = "idle"
    /\ result.tag = "ok"
    /\ Len(result.of) = 2
    /\ result.value[1] # result.value[2]

\* C3: a call with an empty batch or with chunks whose sample count is
\* not round(duration * sample_rate) raises before either oracle is
\* invoked and leaves tracker and buffers as they were: only batches
\* that are non-empty and of the expected size get past the assertions.
C3_FailFast ==
    /\ pc \in InCall =>
          /\ Len(waveforms) >= 1
          /\ \A j \in 1..Len(waveforms) :
                waveforms[j].samples =
                    RInt(config.duration * config.sample_rate, 2)
    /\ result.tag \in {"AssertionError", "RuntimeError"} =>
          /\ Self = entry
          /\ oracle_calls = NoCalls

\* A rejected call on a session that holds a tracked identity and a
\* buffered chunk.
C3_Witness ==
    /\ result.tag = "AssertionError"
    /\ Len(clustering.centers) >= 1
    /\ Len(chunk_buffer) >= 1

\* C4: after reset(), the session answers every call exactly as a
\* freshly constructed session fed the same chunks does.
C4_ResetReplay ==
    Constructed =>
        /\ outputs = fresh.outputs
        /\ result.tag = "ok" => result.value = fresh.value

\* A call answered after a reset() that had state to discard, with a
\* speaker in the answer.
C4_Witness ==
    /\ result.tag = "ok"
    /\ fresh.discarded
    /\ \E j \in 1..Len(result.value) : result.value[j][1] # {}

\* C5: reset() leaves the tracker with no identity and both buffers
\* empty, the state a newly constructed session has, and does not touch
\* the configuration.
C5_ResetTotal ==
    [][result'.tag = "reset" =>
          /\ Len(clustering'.centers) = 0
          /\ chunk_buffer' = <<>>
          /\ pred_buffer' = <<>>
          /\ Self' = NewSession(config)
          /\ UNCHANGED config_vars]_vars

\* reset() called on a session that had identities and buffered chunks.
C5_Witness ==
    /\ result.tag = "reset"
    /\ fresh.discarded
    /\ entry.pred_buffer # <<>>
    /\ Len(entry.clustering.centers) >= 1

\* C6: when an oracle fails the call raises, the failing oracle was
\* invoked once, and tracker and buffers are as before the call.
C6_OracleFailure ==
    result.tag = "OracleError" =>
        /\ Self = entry
        /\ oracle_calls \in {[segmentation |-> 1, embedding |-> 0],
                             [segmentation |-> 1, embedding |-> 1]}

\* The embedding oracle failed on a session holding state.
C6_Witness ==
    /\ result.tag = "OracleError"
    /\ oracle_calls.embedding = 1
    /\ Len(chunk_buffer) >= 1
    /\ Len(clustering.centers) >= 1

\* C7: a call that raises, at whatever point, leaves tracker and buffers
\* as they were before the call.
C7_AllOrNothing ==
    result.tag \in {"AssertionError", "RuntimeError", "OracleError",
                    "Raised"} => Self = entry

\* C8: the two buffers always have the same length and their k-th
\* entries come from the same chunk.
C8_LockStep ==
    /\ Len(chunk_buffer) = Len(pred_buffer)
    /\ \A k \in 1..Len(chunk_buffer) :
          /\ chunk_buffer[k].id = pred_buffer[k].id
          /\ chunk_buffer[k].start = pred_buffer[k].start

\* Two entries buffered between calls, after an eviction.
C8_Witness ==
    /\ pc = "idle"
    /\ Len(chunk_buffer) = 2
    /\ chunk_buffer[1].id > 1

\* C9: constructing a session with latency < step or latency > duration
\* fails before any tracker or buffer state is created, so a session that
\* exists has step <= latency <= duration.
C9_LatencyChecked ==
    /\ pc = "failed" => created = {}
    /\ (pc \notin {"start", "configured"}
           /\ ~(config.step <= config.latency
                   /\ config.latency <= config.duration))
          => pc = "failed"
    /\ created # {} =>
          /\ config.step <= config.latency
          /\ config.latency <= config.duration

\* A construction refused for a latency above the duration.
C9_Witness ==
    /\ pc = "failed"
    /\ config.latency > config.duration

\* C10: an omitted latency and "min" resolve to step, "max" to duration,
\* a number to itself; step and duration are what was given (duration
\* defaulting to the segmentation model's).
C10_LatencyResolution ==
    pc = "configured" =>
        /\ args.latency.tag \in {"none", "min"} => config.latency = args.step
        /\ args.latency.tag = "max" => config.latency = config.duration
        /\ args.latency.tag = "num" => config.latency = args.latency.v
        /\ config.step = args.step
        /\ config.duration = IF args.duration.tag = "none"
                             THEN ModelDuration ELSE args.duration.v

\* "max" resolved against the defaulted duration.
C10_Witness ==
    /\ pc = "configured"
    /\ args.latency.tag = "max"
    /\ args.duration.tag = "none"
    /\ config.latency = ModelDuration

\* C11: with latency = step (num_overlapping_windows = 1) every
\* aggregation sees buffers of one entry, the current chunk, and both
\* buffers are empty again once a chunk's step is over.
C11_MinLatencyNoBlending ==
    (Constructed /\ pred_aggregation.num_overlapping_windows = 1) =>
        /\ pc = "aggregate" =>
              /\ Len(chunk_buffer) = 1
              /\ Len(pred_buffer) = 1
              /\ chunk_buffer[1].id = waveforms[i].id
              /\ pred_buffer[1].id = waveforms[i].id
        /\ pc \in {"idle", "segmentation", "embedding", "track", "return"} =>
              /\ chunk_buffer = <<>>
              /\ pred_buffer = <<>>

\* C12: the tracker never holds more than max_speakers identities; a
\* local speaker is mapped to an identity within the cap or left
\* unassigned, and an active one is left unassigned only at the cap.
C12_IdentityCap ==
    Constructed =>
        /\ Len(clustering.centers) <= config.max_speakers
        /\ \A l \in LocalSpeakers : speaker_map[l] \in 0..config.max_speakers
        /\ pc = "append" =>
              \A l \in ActiveSpeakers(segmentations[i], embeddings[i],
                                      config.tau_active) :
                  speaker_map[l] = 0 =>
                      Len(clustering.centers) = config.max_speakers

\* At the cap, a chunk with an active speaker that matches no identity
\* went through the tracker and the speaker was left unassigned.
C12_Witness ==
    /\ pc = "append"
    /\ Len(clustering.centers) = config.max_speakers
    /\ \E l \in ActiveSpeakers(segmentations[i], embeddings[i],
                               config.tau_active) :
          /\ speaker_map[l] = 0
          /\ \A g \in 1..Len(clustering.centers) :
                ~Matchable(embeddings[i][l], clustering.centers[g],
                           config.delta_new)

\* C13: the local -> global map of a chunk is one-to-one: no two local
\* speakers are mapped to the same identity, matched or newly created.
C13_Injective ==
    \A l1 \in LocalSpeakers : \A l2 \in LocalSpeakers :
        (l1 # l2 /\ speaker_map[l1] # 0) => speaker_map[l1] # speaker_map[l2]

\* Two active speakers that both resemble one identity: one was matched
\* to it, the other founded a new identity.
C13_Witness ==
    /\ pc = "append"
    /\ speaker_map[1] # 0
    /\ speaker_map[2] # 0
    /\ clustering.centers[speaker_map[1]].count >= 2
    /\ clustering.centers[speaker_map[2]].count = 1
    /\ Matchable(embeddings[i][2], clustering.centers[speaker_map[1]],
                 config.delta_new)

\* C14: apart from reset(), no step replaces the tracker, deletes an
\* identity or moves it to another index: the number of identities never
\* decreases and the identity at an index is kept as it was or refreshed
\* with the embedding of the local speaker just mapped to that index.
C14_StableAxis ==
    [][(Constructed /\ result'.tag # "reset") =>
          /\ Len(clustering'.centers) >= Len(clustering.centers)
          /\ [clustering' EXCEPT !.centers = <<>>] =
                 [clustering EXCEPT !.centers = <<>>]
          /\ \A g \in 1..Len(clustering.centers) :
                \/ clustering'.centers[g] = clustering.centers[g]
                \/ \E l \in LocalSpeakers :
                      /\ speaker_map'[l] = g
                      /\ clustering'.centers[g].count =
                             clustering.centers[g].count + 1
                      /\ clustering'.centers[g].sum =
                             <<clustering.centers[g].sum[1]
                                   + embeddings[i][l][1],
                               clustering.centers[g].sum[2]
                                   + embeddings[i][l][2]>>]_vars

\* The first identity matched again after a second one was founded.
C14_Witness ==
    /\ pc = "append"
    /\ waveforms[i].kind = "a"
    /\ Len(clustering.centers) = 2
    /\ speaker_map[1] = 1
    /\ clustering.centers[1].count >= 2
    /\ clustering.centers[2].sum = ED

\* The local speakers the tracker finds active in a chunk of a kind.
ActiveIn(kind) ==
    ActiveSpeakers(Segment([kind |-> kind], config.duration),
                   Embed([kind |-> kind]), config.tau_active)

\* C15: when every chunk given to the tracker since construction or the
\* last reset() is of one kind with a single active speaker, the tracker
\* holds one identity and the speaker is mapped to index 1 at every
\* chunk, nobody else being mapped.
C15_StaticInput ==
    \A kind \in stream :
        (Constructed /\ hist.seen = {kind}
            /\ Cardinality(ActiveIn(kind)) = 1) =>
            /\ Len(clustering.centers) = 1
            /\ \A l \in LocalSpeakers :
                  speaker_map[l] = IF l \in ActiveIn(kind) THEN 1 ELSE 0

\* After a reset() that discarded identities, the same speaker for the
\* second chunk running.
C15_Witness ==
    /\ pc = "append"
    /\ fresh.discarded
    /\ hist.seen = {"d"}
    /\ Len(clustering.centers) = 1
    /\ clustering.centers[1].count = 2
    /\ speaker_map[1] = 1

\* A chunk whose activity is below tau_active everywhere.
AllSilent(seg) ==
    \A k \in 1..Len(seg) : \A l \in LocalSpeakers :
        seg[k][l] < config.tau_active

\* No buffered prediction is above tau_active on a tick of the output
\* region it covers.
QuietRegion ==
    \A j \in 1..Len(pred_buffer) :
        \A t \in Region(pred_aggregation, pred_buffer) :
            Covers(pred_buffer[j], t) =>
                \A g \in GlobalSpeakers :
                    pred_buffer[j].data[t - pred_buffer[j].start + 1][g]
                        <= config.tau_active

\* C16 as stated: the step of an all-silent chunk creates and updates no
\* identity, maps no local speaker, and the thresholded output made for
\* the chunk has no interval, whatever the latency and the buffers.
C16_SilentChunk ==
    [][(pc \in {"track", "aggregate"} /\ AllSilent(segmentations[i])) =>
          /\ pc' = "append" =>
                (clustering' = clustering /\ speaker_map' = NoMap)
          /\ pc' = "evict" => outputs'[i][1] = {}]_vars

\* C16, amended: the step of an all-silent chunk creates and updates no
\* identity and maps no local speaker, whatever the latency and the
\* buffers; the thresholded output made for the chunk has no interval
\* provided no prediction still buffered is above tau_active in the
\* output region, which is always so when latency = step.
C16_SilentChunkQuiet ==
    [][(pc \in {"track", "aggregate"} /\ AllSilent(segmentations[i])) =>
          /\ pc' = "append" =>
                (clustering' = clustering /\ speaker_map' = NoMap)
          /\ (pc' = "evict"
                 /\ (QuietRegion \/ config.latency = config.step)) =>
                outputs'[i][1] = {}]_vars

\* An all-silent chunk got its output, empty, while the buffer still
\* held an older prediction with a speaker in it and identities existed.
C16_Witness ==
    /\ pc = "evict"
    /\ AllSilent(segmentations[i])
    /\ speaker_map = NoMap
    /\ Len(clustering.centers) >= 1
    /\ Len(pred_buffer) >= 2
    /\ \E k \in 1..Len(pred_buffer[1].data) : \E g \in GlobalSpeakers :
          pred_buffer[1].data[k][g] > config.tau_active
    /\ QuietRegion
    /\ outputs[i][1] = {}

\* C17: a session's num_overlapping_windows is at least 1, not below the
\* value for any smaller valid latency and not above the value for any
\* larger one, step and duration being the session's.
C17_LatencyMonotone ==
    Constructed =>
        /\ pred_aggregation.num_overlapping_windows >= 1
        /\ audio_aggregation.num_overlapping_windows >= 1
        /\ \A l \in config.step..config.duration :
              /\ NumOverlappingWindows(config.step, l) >= 1
              /\ l <= config.latency =>
                    /\ NumOverlappingWindows(config.step, l)
                           <= pred_aggregation.num_overlapping_windows
                    /\ NumOverlappingWindows(config.step, l)
                           <= audio_aggregation.num_overlapping_windows
              /\ l >= config.latency =>
                    /\ pred_aggregation.num_overlapping_windows
                           <= NumOverlappingWindows(config.step, l)
                    /\ audio_aggregation.num_overlapping_windows
                           <= NumOverlappingWindows(config.step, l)

\* A latency that is not a multiple of the step: 1.5 s at a step of 1 s
\* overlaps two chunks, the minimum latency one.
C17_Witness ==
    /\ pc = "idle"
    /\ config.step = 2
    /\ config.latency = 3
    /\ pred_aggregation.num_overlapping_windows = 2
    /\ NumOverlappingWindows(config.step, config.step) = 1

\* The last n elements of a sequence.
LastN(seq, n) == SubSeq(seq, Len(seq) - n + 1, Len(seq))

\* C18: when the k-th chunk appended since the last reset is aggregated,
\* each buffer holds the min(k, num_overlapping_windows) chunks appended
\* last, in order, the current one last; and but for reset() a buffer
\* shrinks only at the eviction step, after the current chunk's output
\* was produced, by its oldest entry alone.
C18_StrictFifo ==
    [][/\ pc' = "aggregate" =>
             LET k == Len(hist'.log)
                 now == pred_aggregation'.num_overlapping_windows
                 n == IF k <= now THEN k ELSE now
             IN  /\ k >= 1
                 /\ Ids(chunk_buffer') = LastN(hist'.log, n)
                 /\ Ids(pred_buffer') = LastN(hist'.log, n)
                 /\ chunk_buffer'[Len(chunk_buffer')].id = waveforms'[i'].id
       /\ (result'.tag # "reset"
              /\ Len(chunk_buffer') + Len(pred_buffer')
                     < Len(chunk_buffer) + Len(pred_buffer)) =>
             /\ pc = "evict"
             /\ Len(outputs) = i
             /\ chunk_buffer' = Tail(chunk_buffer)
             /\ pred_buffer' = Tail(pred_buffer)]_vars

\* C19: whatever the split of the chunks into calls, the session is in
\* the state of, and a call returns the outputs of, a session given the
\* same chunks one call each.
C19_BatchingTransparent ==
    Constructed =>
        /\ Self = single.sess
        /\ pc \in InCall => outputs = single.value
        /\ result.tag = "ok" => result.value = single.value

\* A call on two different chunks returned, the output of the second
\* holding a speaker, with a chunk still buffered.
C19_Witness ==
    /\ pc = "idle"
    /\ result.tag = "ok"
    /\ Len(result.of) = 2
    /\ result.value = single.value
    /\ result.value[1] # result.value[2]
    /\ result.value[2][1] # {}
    /\ Len(chunk_buffer) >= 1
    /\ Len(clustering.centers) = 2

\* The steps of a call on a batch, in the order of lines 203-227.
StepNames == <<"track", "append", "aggregate", "evict">>

Schedule(batch) ==
    [m \in 1..(Len(StepNames) * Len(batch)) |->
        <<StepNames[((m - 1) % Len(StepNames)) + 1],
          batch[((m - 1) \div Len(StepNames)) + 1].id>>]

\* How many steps are behind a call at its current position.
StepsDone ==
    CASE pc \in {"segmentation", "embedding"} -> 0
      [] pc = "track" -> Len(StepNames) * (i - 1)
      [] pc = "append" -> Len(StepNames) * (i - 1) + 1
      [] pc = "aggregate" -> Len(StepNames) * (i - 1) + 2
      [] pc = "evict" -> Len(StepNames) * (i - 1) + 3
      [] pc = "return" -> Len(StepNames) * Len(waveforms)

\* C20: the steps a call has taken are a prefix of: for each chunk in
\* input order, once, tracker update, append, aggregations and
\* thresholding, eviction.  So after the tracker update the permuted
\* prediction is the current chunk's; at the aggregations the current
\* chunk is the newest entry of both buffers and the earlier chunks have
\* their outputs; at the eviction the current chunk has its output and
\* is still buffered.
C20_StepOrder ==
    pc \in InCall =>
        /\ hist.steps = SubSeq(Schedule(waveforms), 1, StepsDone)
        /\ \A j \in 1..(Len(waveforms) - 1) :
              waveforms[j].id < waveforms[j + 1].id
        /\ pc = "append" => permuted_seg.id = waveforms[i].id
        /\ pc \in {"aggregate", "evict"} =>
              /\ chunk_buffer # <<>>
              /\ chunk_buffer[Len(chunk_buffer)].id = waveforms[i].id
              /\ pred_buffer[Len(pred_buffer)].id = waveforms[i].id
        /\ pc \in {"track", "append", "aggregate"} => Len(outputs) = i - 1
        /\ pc = "evict" => Len(outputs) = i
        /\ pc = "return" => Len(outputs) = Len(waveforms)

\* A call on two chunks at its end: eight steps taken.
C20_Witness ==
    /\ pc = "return"
    /\ Len(waveforms) = 2
    /\ Len(hist.steps) = 8
    /\ hist.steps[4] = <<"evict", waveforms[1].id>>
    /\ hist.steps[5] = <<"track", waveforms[2].id>>

=============================================================================
